---- MODULE Spec2Model ----
(***************************************************************************)
(* The todo service of todo-rs: five axum handlers (handlers.rs) that each *)
(* check a connection out of one shared r2d2 pool, run one diesel          *)
(* statement against the todos table and answer, and the entry point       *)
(* (main.rs) that builds the pool, serves, and drains on a signal.         *)
(*                                                                         *)
(* A request in flight is an element of the bag `inflight`; requests are   *)
(* anonymous tasks, so equal requests are interchangeable.  A handler has  *)
(* no await between db.get() and its return: once it holds a connection    *)
(* it runs its statement, drops the connection and answers.  A failure in  *)
(* a handler is `.map_err(..).unwrap()`: the task panics, the connection   *)
(* is dropped while unwinding and the client's socket is closed without a  *)
(* response.                                                               *)
(***************************************************************************)
EXTENDS Integers, Sequences, FiniteSets, Bags, TLC

\* ---------------------------------------------------------------- bounds
\* Rows the storage sequence may hand out (caps the number of creates).
MaxId == 2
\* Requests handled at the same time under Spec (below the pool size).
MaxInflight == 3
\* Requests handled at the same time under PoolSpec (above the pool size).
MaxPoolInflight == 6

\* ------------------------------------------------------ program constants
\* r2d2::Pool::builder().max_size(5)
MaxSize == 5
\* StatusCode::CREATED, StatusCode::OK, StatusCode::NO_CONTENT
CREATED == 201
OK == 200
NO_CONTENT == 204
\* StatusCode::INTERNAL_SERVER_ERROR, the value map_err builds before unwrap
INTERNAL_SERVER_ERROR == 500
\* No status line at all: the handler task panicked and the socket was closed.
NoResponse == 0
\* The process has not exited; main returning gives exit code 0.
Running == -1
ExitOk == 0

\* ------------------------------------------------------------ input sets
\* Bodies of NewTodo / UpdateTodo: title and content are distinct fields.
Bodies == {[title |-> "A", content |-> "B"], [title |-> "B", content |-> "A"]}
\* Path parameter {id}.
Ids == 1..MaxId
NoBody == [title |-> "", content |-> ""]

Req(op, todo_id, b) ==
    [op |-> op, id |-> todo_id, title |-> b.title, content |-> b.content]

\* The five routes of the Router, with every input of the bounded sets.
Requests ==
    {Req("create_todo", 0, b) : b \in Bodies}
    \cup {Req("get_todos", 0, NoBody)}
    \cup {Req("get_todo", i, NoBody) : i \in Ids}
    \cup {Req("update_todo", i, b) : i \in Ids, b \in Bodies}
    \cup {Req("delete_todo", i, NoBody) : i \in Ids}

\* One request per route: the inputs of the pool specification.
PoolRequests ==
    {r \in Requests : r.id \in {0, 1} /\ r.title \in {"", "A"}}

Signals == {"SIGINT", "SIGTERM"}

VARIABLES
    todos,        \* the todos table: a set of rows [id, title, content]
    id_seq,       \* the next value of the table's id sequence
    inflight,     \* bag of requests being handled, each with its position pc
    checked_out,  \* connections the pool has handed out and not got back
    server,       \* "serving" | "draining" | "exited"
    exit_code,    \* the process's exit code, Running before it exits
    out,          \* outcome of the request this step completed, NoOut if none
    view,         \* history: rows a client expects, from the responses so far
    issued,       \* history: ids returned by 201 responses, in order
    deleted,      \* history: ids whose Delete was answered 204
    removed       \* history: of those, ids that had been issued before

vars == <<todos, id_seq, inflight, checked_out, server, exit_code, out,
          view, issued, deleted, removed>>

NoOut ==
    [op |-> "none", id |-> 0, title |-> "", content |-> "",
     status |-> NoResponse, err |-> "none", rows |-> 0, body |-> <<>>]

\* --------------------------------------------------------------- helpers
Range(s) == {s[i] : i \in DOMAIN s}

At(r, pc) ==
    [op |-> r.op, id |-> r.id, title |-> r.title, content |-> r.content,
     pc |-> pc]

\* Number of requests in flight that satisfy a position / a route.
CountPc(pc) ==
    LET S == {e \in DOMAIN inflight : e.pc = pc}
    IN  BagCardinality([e \in S |-> inflight[e]])

CountOp(op) ==
    LET S == {e \in DOMAIN inflight : e.op = op}
    IN  BagCardinality([e \in S |-> inflight[e]])

Holders == CountPc("conn")
Waiters == CountPc("get")

\* All orderings of a finite set of rows.
RECURSIVE Orderings(_)
Orderings(S) ==
    IF S = {} THEN {<<>>}
    ELSE UNION {{<<x>> \o s : s \in Orderings(S \ {x})} : x \in S}

\* ---------------------------------------------------------- the statements
\* Mutants of NewRow: the two columns bound the wrong way round; the id
\* taken from a fixed value instead of the sequence.
NewRowSwapped(nid, new_todo) ==
    [id |-> nid, title |-> new_todo.content, content |-> new_todo.title]

NewRowFixedId(nid, new_todo) ==
    [id |-> 1, title |-> new_todo.title, content |-> new_todo.content]

\* insert_into(todos::table).values(&new_todo).get_result: the row stored
\* and returned; NewTodo has no id, storage assigns the sequence's value.
NewRow(nid, new_todo) ==
    [id |-> nid, title |-> new_todo.title, content |-> new_todo.content]

\* nextval of the id column's sequence.
NextVal(seq) == seq + 1

\* todos::table.filter(id.eq(todo_id))
Filter(table, todo_id) == {t \in table : t.id = todo_id}

\* Mutant of Changeset: only the title is written.
ChangesetTitleOnly(t, update_todo) ==
    [id |-> t.id, title |-> update_todo.title, content |-> t.content]

\* .set(&update_todo): AsChangeset of UpdateTodo writes title and content.
Changeset(t, update_todo) ==
    [id |-> t.id, title |-> update_todo.title, content |-> update_todo.content]

\* Mutants of DeleteFrom: the statement removes nothing; the filter is lost.
DeleteNothing(table, todo_id) == table

DeleteAll(table, todo_id) == {}

\* diesel::delete(todos::table.filter(id.eq(todo_id))).execute
DeleteFrom(table, todo_id) == table \ Filter(table, todo_id)

\* Mutant of Load: the read stops after the first row.
LoadFirst(table) ==
    {IF s = <<>> THEN s ELSE <<s[1]>> : s \in Orderings(table)}

\* todos::table.load::<Todo>: every row once, in an order storage chooses.
Load(table) == Orderings(table)

\* ----------------------------------------------------------------- pool
\* Mutant of HasIdle: the pool opens a new connection whenever asked.
HasIdleAlways(n) == TRUE

\* db.get() returns at once while fewer than max_size connections are out.
HasIdle(n) == n < MaxSize

\* Mutant of Release: the connection is not given back.
ReleaseLeak(n) == n

\* Dropping the PooledConnection gives it back to the pool.
Release(n) == n - 1

\* ------------------------------------------------------------- outcomes
Outcome(r, status, err, rows, body) ==
    [op |-> r.op, id |-> r.id, title |-> r.title, content |-> r.content,
     status |-> status, err |-> err, rows |-> rows, body |-> body]

\* A row the client expects, and the request kind that last wrote it.
Expect(todo_id, o, by) ==
    [id |-> todo_id, title |-> o.title, content |-> o.content, by |-> by]

\* The history a client keeps of outcome o: what it now expects of storage.
Observe(o) ==
    /\ out' = o
    /\ view' =
         IF o.status = CREATED
           THEN view \cup {Expect(o.body[1].id, o, "create")}
         ELSE IF o.status = OK /\ o.op = "update_todo"
           THEN {t \in view : t.id # o.id} \cup {Expect(o.id, o, "update")}
         ELSE IF o.status = NO_CONTENT
           THEN {t \in view : t.id # o.id}
         ELSE view
    /\ issued' =
         IF o.status = CREATED THEN Append(issued, o.body[1].id) ELSE issued
    /\ deleted' =
         IF o.status = NO_CONTENT THEN deleted \cup {o.id} ELSE deleted
    /\ removed' =
         IF o.status = NO_CONTENT /\ o.id \in Range(issued)
           THEN removed \cup {o.id} ELSE removed

\* The handler returns (or unwinds): conn goes out of scope, the task ends.
Drop(e) ==
    /\ inflight' = inflight (-) SetToBag({e})
    /\ checked_out' = Release(checked_out)

\* Err(_).map_err(|_| StatusCode::INTERNAL_SERVER_ERROR).unwrap(): a panic.
Panic(r, err) == Observe(Outcome(r, NoResponse, err, 0, <<>>))

Init ==
    /\ todos = {}
    /\ id_seq = 1
    /\ inflight = EmptyBag
    /\ checked_out = 0
    /\ server = "serving"
    /\ exit_code = Running
    /\ out = NoOut
    /\ view = {}
    /\ issued = <<>>
    /\ deleted = {}
    /\ removed = {}

\* -------------------------------------------------------------- actions
\* The listener accepts a request, the Router hands it to its handler and
\* the handler calls db.get(): it gets a connection at once if one is idle
\* and blocks in get() otherwise.
Accept(r, limit) ==
    /\ server = "serving"
    /\ BagCardinality(inflight) < limit
    /\ r.op = "create_todo" => id_seq + CountOp("create_todo") <= MaxId
    /\ IF HasIdle(checked_out)
         THEN /\ inflight' = inflight (+) SetToBag({At(r, "conn")})
              /\ checked_out' = checked_out + 1
         ELSE /\ inflight' = inflight (+) SetToBag({At(r, "get")})
              /\ checked_out' = checked_out
    /\ out' = NoOut
    /\ UNCHANGED <<todos, id_seq, server, exit_code, view, issued, deleted,
                   removed>>

\* A blocked db.get() returns Ok: a connection came back to the pool.
PoolGet(r) ==
    /\ BagIn(At(r, "get"), inflight)
    /\ HasIdle(checked_out)
    /\ inflight' = (inflight (-) SetToBag({At(r, "get")}))
                   (+) SetToBag({At(r, "conn")})
    /\ checked_out' = checked_out + 1
    /\ out' = NoOut
    /\ UNCHANGED <<todos, id_seq, server, exit_code, view, issued, deleted,
                   removed>>

\* A blocked db.get() returns Err after the pool's timeout: unwrap panics.
PoolGetErr(r) ==
    /\ BagIn(At(r, "get"), inflight)
    /\ inflight' = inflight (-) SetToBag({At(r, "get")})
    /\ Panic(r, "pool")
    /\ UNCHANGED <<todos, id_seq, checked_out, server, exit_code>>

create_todo(r) ==
    /\ r.op = "create_todo"
    /\ BagIn(At(r, "conn"), inflight)
    /\ \E fault \in BOOLEAN :
         IF fault
           THEN Panic(r, "query") /\ UNCHANGED <<todos, id_seq>>
           ELSE LET todo == NewRow(id_seq, r)
                IN  /\ todos' = todos \cup {todo}
                    /\ id_seq' = NextVal(id_seq)
                    /\ Observe(Outcome(r, CREATED, "none", 1, <<todo>>))
    /\ Drop(At(r, "conn"))
    /\ UNCHANGED <<server, exit_code>>

get_todos(r) ==
    /\ r.op = "get_todos"
    /\ BagIn(At(r, "conn"), inflight)
    /\ \E fault \in BOOLEAN :
         IF fault
           THEN Panic(r, "query")
           ELSE \E results \in Load(todos) :
                  Observe(Outcome(r, OK, "none", Len(results), results))
    /\ Drop(At(r, "conn"))
    /\ UNCHANGED <<todos, id_seq, server, exit_code>>

get_todo(r) ==
    /\ r.op = "get_todo"
    /\ BagIn(At(r, "conn"), inflight)
    /\ \E fault \in BOOLEAN :
         IF fault
           THEN Panic(r, "query")
           ELSE IF Filter(todos, r.id) = {}
             THEN Panic(r, "norow")
             ELSE \E result \in Filter(todos, r.id) :
                    Observe(Outcome(r, OK, "none", 1, <<result>>))
    /\ Drop(At(r, "conn"))
    /\ UNCHANGED <<todos, id_seq, server, exit_code>>

update_todo(r) ==
    /\ r.op = "update_todo"
    /\ BagIn(At(r, "conn"), inflight)
    /\ \E fault \in BOOLEAN :
         IF fault
           THEN Panic(r, "query") /\ UNCHANGED todos
           ELSE IF Filter(todos, r.id) = {}
             THEN Panic(r, "norow") /\ UNCHANGED todos
             ELSE LET matched == Filter(todos, r.id)
                      updated == {Changeset(t, r) : t \in matched}
                  IN  /\ todos' = (todos \ matched) \cup updated
                      /\ \E todo \in updated :
                           Observe(Outcome(r, OK, "none",
                                           Cardinality(matched), <<todo>>))
    /\ Drop(At(r, "conn"))
    /\ UNCHANGED <<id_seq, server, exit_code>>

delete_todo(r) ==
    /\ r.op = "delete_todo"
    /\ BagIn(At(r, "conn"), inflight)
    /\ \E fault \in BOOLEAN :
         IF fault
           THEN Panic(r, "query") /\ UNCHANGED todos
           ELSE /\ todos' = DeleteFrom(todos, r.id)
                /\ Observe(Outcome(r, NO_CONTENT, "none",
                                   Cardinality(Filter(todos, r.id)), <<>>))
    /\ Drop(At(r, "conn"))
    /\ UNCHANGED <<id_seq, server, exit_code>>

\* select! over ctrl_c and (unix) SIGTERM: the first to resolve starts the
\* graceful shutdown; the listener stops accepting.
shutdown_signal(sig) ==
    /\ sig \in Signals
    /\ server = "serving"
    /\ server' = "draining"
    /\ out' = NoOut
    /\ UNCHANGED <<todos, id_seq, inflight, checked_out, exit_code, view,
                   issued, deleted, removed>>

\* server.await returns once every connection task has ended; main returns.
main ==
    /\ server = "draining"
    /\ inflight = EmptyBag
    /\ server' = "exited"
    /\ exit_code' = ExitOk
    /\ out' = NoOut
    /\ UNCHANGED <<todos, id_seq, inflight, checked_out, view, issued,
                   deleted, removed>>

Handle(r) ==
    \/ create_todo(r)
    \/ get_todos(r)
    \/ get_todo(r)
    \/ update_todo(r)
    \/ delete_todo(r)

\* Up to MaxInflight requests at a time: the pool is never exhausted.
Next ==
    \/ \E r \in Requests : Accept(r, MaxInflight)
    \/ \E r \in Requests : Handle(r)
    \/ \E sig \in Signals : shutdown_signal(sig)
    \/ main

Spec == Init /\ [][Next]_vars

\* Up to MaxPoolInflight requests at a time, one input per route: db.get()
\* blocks when all MaxSize connections are out.
PoolNext ==
    \/ \E r \in PoolRequests : Accept(r, MaxPoolInflight)
    \/ \E r \in PoolRequests : PoolGet(r)
    \/ \E r \in PoolRequests : PoolGetErr(r)
    \/ \E r \in PoolRequests : Handle(r)
    \/ \E sig \in Signals : shutdown_signal(sig)
    \/ main

PoolSpec == Init /\ [][PoolNext]_vars

\* A handler that holds a connection runs to its end (it never awaits), and
\* a blocked db.get() returns, with a connection or with the timeout error.
FairPoolSpec ==
    /\ PoolSpec
    /\ WF_vars(\E r \in PoolRequests : Handle(r))
    /\ WF_vars(\E r \in PoolRequests : PoolGet(r) \/ PoolGetErr(r))

\* ======================================================================
\* Properties

\* The stored row of a view entry (the entry without its history tag).
Row(v) == [id |-> v.id, title |-> v.title, content |-> v.content]

\* A request's own statement ran: no pool timeout and no storage fault.
Ran(o) == o.op # "none" /\ o.err \notin {"pool", "query"}

\* C1 (round trip): a Create whose statement ran answers 201 with a Todo
\* that carries the request's title and content and an id assigned by
\* storage; a GetById of an id whose last acknowledged write is that Create
\* (no update or delete of it since), whose statement ran, answers 200 with
\* the same id, title and content.
RoundTrip ==
    /\ (out.op = "create_todo" /\ Ran(out)) =>
         /\ out.status = CREATED
         /\ Len(out.body) = 1
         /\ out.body[1].title = out.title
         /\ out.body[1].content = out.content
         /\ out.body[1].id = id_seq - 1
         /\ out.body[1] \in todos
    /\ \A v \in view :
         (out.op = "get_todo" /\ Ran(out) /\ out.id = v.id /\ v.by = "create")
           => (out.status = OK /\ out.body = <<Row(v)>>)

\* C1 witness: a GetById answered 200 with the row a Create returned.
RoundTripWitness ==
    /\ out.op = "get_todo"
    /\ out.status = OK
    /\ \E v \in view : v.by = "create" /\ out.body = <<Row(v)>>

\* C2 (update replaces fields): an Update of an existing id whose statement
\* ran answers 200 with the request's title and content under the same id,
\* leaves every other row as it was and adds or removes none; an Update of
\* a missing id changes nothing; a later GetById of an id last written by an
\* Update answers 200 with exactly the Update's title and content.
UpdateReplaces ==
    [][ /\ (out'.op = "update_todo" /\ Ran(out') /\ Filter(todos, out'.id) # {})
           => /\ out'.status = OK
              /\ out'.body = <<[id |-> out'.id, title |-> out'.title,
                                content |-> out'.content]>>
              /\ todos' = {t \in todos : t.id # out'.id}
                          \cup {out'.body[1]}
        /\ (out'.op = "update_todo" /\ Filter(todos, out'.id) = {})
           => (out'.status # OK /\ todos' = todos)
        /\ \A v \in view' :
             (out'.op = "get_todo" /\ Ran(out') /\ out'.id = v.id
              /\ v.by = "update")
               => (out'.status = OK /\ out'.body = <<Row(v)>>)
      ]_vars

\* C2 witness: a GetById answered 200 with the row an Update wrote.
UpdateReplacesWitness ==
    /\ out.op = "get_todo"
    /\ out.status = OK
    /\ \E v \in view : v.by = "update" /\ out.body = <<Row(v)>>

\* C3 (list completeness): while no Delete has been answered, a ListAll
\* whose statement ran answers 200 with exactly as many records as Creates
\* were answered 201, and the records' ids are the ids those Creates got.
ListComplete ==
    (out.op = "get_todos" /\ Ran(out) /\ deleted = {}) =>
        /\ out.status = OK
        /\ Len(out.body) = Len(issued)
        /\ {out.body[i].id : i \in DOMAIN out.body} = Range(issued)

\* C3 witness: a ListAll answered with the two records created so far.
ListCompleteWitness ==
    /\ out.op = "get_todos"
    /\ out.status = OK
    /\ deleted = {}
    /\ Len(issued) = 2
    /\ Len(out.body) = 2

\* C4, as stated: once Delete(id) was answered, for every id, no later
\* GetById(id) is answered 200.
DeleteThenGetAnyId ==
    (out.op = "get_todo" /\ out.id \in deleted) => out.status # OK

\* C4, amended: once Delete(id) was answered for an id storage had already
\* assigned, every later GetById(id) finds no row: it is never answered
\* 200, and fails on the no-row path whenever its statement ran.
DeleteThenGet ==
    (out.op = "get_todo" /\ out.id \in removed) =>
        /\ out.status # OK
        /\ out.rows = 0
        /\ Ran(out) => out.err = "norow"

\* C4 witness: a GetById of a deleted record failed on the no-row path.
DeleteThenGetWitness ==
    /\ out.op = "get_todo"
    /\ out.id \in removed
    /\ out.err = "norow"

\* C5 (unique ids): the ids answered by Creates, however the Creates and
\* the other requests interleave, are pairwise distinct, and no two rows of
\* storage share an id.
UniqueIds ==
    /\ \A i, j \in DOMAIN issued : issued[i] = issued[j] => i = j
    /\ \A t, u \in todos : t.id = u.id => t = u

\* C5 witness: a second Create was answered, after two were in flight with
\* a connection each, and both rows are stored.
UniqueIdsWitness ==
    /\ out.op = "create_todo"
    /\ out.status = CREATED
    /\ Len(issued) = 2
    /\ Cardinality(todos) = 2

\* C6, as stated: every failed operation is answered 500.
ErrorCollapse ==
    (out.op # "none" /\ out.err # "none") => out.status = INTERNAL_SERVER_ERROR

\* C7 (delete succeeds whether or not a row matched): a Delete whose
\* statement ran is answered 204 with or without a matching row, and
\* storage afterwards is the prior storage without the rows of that id:
\* unchanged when none matched.
DeleteFrame ==
    [][ (out'.op = "delete_todo" /\ Ran(out')) =>
          /\ out'.status = NO_CONTENT
          /\ todos' = {t \in todos : t.id # out'.id}
          /\ out'.rows = Cardinality({t \in todos : t.id = out'.id})
          /\ out'.rows = 0 => todos' = todos
      ]_vars

\* C7 witness: a Delete that matched no row was answered 204 while storage
\* holds a record.
DeleteFrameWitness ==
    /\ out.op = "delete_todo"
    /\ out.status = NO_CONTENT
    /\ out.rows = 0
    /\ todos # {}

\* C8 (pool bound): at most MaxSize handlers hold a connection at a time,
\* and every connection a handler holds is one the pool handed out.
PoolBound ==
    /\ Holders <= MaxSize
    /\ checked_out <= MaxSize
    /\ Holders = checked_out

\* C8 witness: all MaxSize connections are out and a request is blocked.
PoolBoundWitness ==
    /\ checked_out = MaxSize
    /\ Waiters > 0

\* C9, as stated: after the first signal no request is accepted, every
\* request in flight finishes with a response, and the process exits with
\* code 0 once none is left.
GracefulShutdown ==
    [][ /\ server # "serving" =>
              BagCardinality(inflight') <= BagCardinality(inflight)
        /\ (server = "draining" /\ out'.op # "none") =>
              out'.status # NoResponse
        /\ server' = "exited" =>
              (server = "draining" /\ inflight = EmptyBag
               /\ exit_code' = ExitOk)
      ]_vars

\* C10 (connection reclaim and progress): a handler that ends, by
\* answering or by panicking, has given its connection back, so the pool's
\* count of connections out is the number of handlers holding one and is 0
\* when no request is in flight; whenever all MaxSize connections are out,
\* one is free again later; and once no new request arrives, every request
\* in flight, the blocked ones included, comes to its end.
ConnectionReclaim ==
    /\ [](checked_out = Holders)
    /\ [](inflight = EmptyBag => checked_out = 0)
    /\ (checked_out = MaxSize) ~> (checked_out < MaxSize)
    /\ (server = "draining") ~> (inflight = EmptyBag)

\* C10 witness: with all connections out and a request blocked, a handler
\* panicked and its connection is back in the pool for the blocked request.
ConnectionReclaimWitness ==
    /\ out.op = "get_todo"
    /\ out.status = NoResponse
    /\ out.err = "norow"
    /\ checked_out = MaxSize - 1
    /\ Holders = MaxSize - 1
    /\ Waiters > 0

====
